---- MODULE Spec2Model ----
(***************************************************************************)
(* ai-updater: the packaging/publishing pipeline (make_update.py) and the  *)
(* apply pipeline (updater.py) as state machines.                          *)
(*                                                                         *)
(* Strings that the code inspects character-wise (archive member names)    *)
(* are sequences of tokens, "/" being a token of its own: "venv/bin/python"*)
(* is <<"venv", "/", "bin", "/", "python">>.  File-system paths that the   *)
(* code only joins and splits are sequences of components.                 *)
(***************************************************************************)
EXTENDS Integers, Sequences, FiniteSets, TLC

\* ------------------------------------------------------------------ bounds
MaxTime == 3
MaxRuns == 2
MaxTreeFiles == 3
MaxEntries == 2
TicksPerSecond == 2

\* --------------------------------------------------------- program constants
EXCLUDE_DIRS == {".git", "venv", "__pycache__", ".mypy_cache", ".idea", ".vscode", "logs"}
EXCLUDE_FILES == {".DS_Store", ".env", ".python-version"}
INCLUDE_ALWAYS == {<<"opt", "ai-updater", "DEVELOPMENT_GUIDE.md">>}
BASE_UPDATE_DIR == <<"opt", "ai-updater", "updates">>

None == "None"
\* what a path that names no file holds; a path that names one holds <<its bytes>>
NoFile == <<>>

\* ------------------------------------------------------------- path helpers
\* os.path.join of components into the string the archive stores
RECURSIVE JoinPath(_)
JoinPath(p) ==
  IF Len(p) = 0 THEN <<>>
  ELSE IF Len(p) = 1 THEN <<p[1]>>
  ELSE <<p[1], "/">> \o JoinPath(Tail(p))

\* os.path.relpath(abs_path, start) for an abs_path below start
RelPath(abs, start) == SubSeq(abs, Len(start) + 1, Len(abs))

\* os.path.basename
Basename(p) == p[Len(p)]

IsPrefix(s, t) == Len(s) <= Len(t) /\ SubSeq(t, 1, Len(s)) = s

\* str.split("/"): the components of a string, each a string itself
RECURSIVE Split(_)
Split(s) ==
  IF \A i \in 1..Len(s) : s[i] # "/" THEN <<s>>
  ELSE LET k == CHOOSE i \in 1..Len(s) : s[i] = "/" /\ \A j \in 1..(i - 1) : s[j] # "/"
       IN <<SubSeq(s, 1, k - 1)>> \o Split(SubSeq(s, k + 1, Len(s)))

\* ------------------------------------------------------------ project trees
ProjectNames == {"a", "b"}
ProjectPath(name) == <<"srv", name>>

\* the order in which a directory lists its entries
NameOrder == <<"app.py", ".env", "DEVELOPMENT_GUIDE.md", "logs", "src", "venv">>

\* the files a project tree may hold (paths relative to the project path)
TreeFiles ==
  { <<"app.py">>, <<".env">>, <<"DEVELOPMENT_GUIDE.md">>,
    <<"logs">>, <<"logs", "app.py">>,
    <<"src", "app.py">>, <<"src", ".env">>, <<"src", "venv", "app.py">> }

\* a tree is a set of files in which no file is also a directory
ConsistentTree(t) == \A f \in t : \A g \in t : f = g \/ ~IsPrefix(f, g)
Trees == {t \in SUBSET TreeFiles : Cardinality(t) <= MaxTreeFiles /\ ConsistentTree(t)}
BuildTrees == { {<<"app.py">>, <<"logs", "app.py">>} }

FileData(abs) == <<"bytes", abs>>

SortNames(S) == SelectSeq(NameOrder, LAMBDA n : n \in S)

RECURSIVE Flatten(_)
Flatten(ss) == IF Len(ss) = 0 THEN <<>> ELSE Head(ss) \o Flatten(Tail(ss))

\* line 34: dirs[:] = [d for d in dirs if d not in EXCLUDE_DIRS]
KeepDirsNoPrune(dirs) == dirs
KeepDirs(dirs) == {d \in dirs : d \notin EXCLUDE_DIRS}

\* line 36: if file in EXCLUDE_FILES: continue
KeepFiles(files) == {f \in files : f \notin EXCLUDE_FILES}

\* lines 33-40: the entries os.walk(path) makes zip_project write, in order
RECURSIVE Walk(_, _, _)
Walk(path, t, root) ==
  LET below == {f \in t : IsPrefix(root, f) /\ Len(f) > Len(root)}
      files == {f[Len(root) + 1] : f \in {g \in below : Len(g) = Len(root) + 1}}
      dirs == {f[Len(root) + 1] : f \in {g \in below : Len(g) > Len(root) + 1}}
      fs == SortNames(KeepFiles(files))
      ds == SortNames(KeepDirs(dirs))
      entry(file) ==
        LET abs_path == path \o root \o <<file>>
            rel_path == RelPath(abs_path, path)
        IN [name |-> JoinPath(rel_path), data |-> FileData(abs_path)]
  IN [i \in 1..Len(fs) |-> entry(fs[i])]
       \o Flatten([i \in 1..Len(ds) |-> Walk(path, t, root \o <<ds[i]>>)])

\* lines 43-46: the auxiliary files appended after the walk
Extras(present) ==
  LET xs == {x \in INCLUDE_ALWAYS : x \in present}
      x0 == CHOOSE x \in xs : TRUE
  IN IF xs = {} THEN <<>>
     ELSE <<[name |-> <<Basename(x0)>>, data |-> FileData(x0)]>>

\* ------------------------------------------------------------------- state
VARIABLES
  now,            \* the wall clock, in ticks
  runsLeft,       \* invocations of make_update.main still to come
  projects,       \* config.yaml: the project names, in file order
  pathExists,     \* os.path.exists(info["path"]) per project
  tree,           \* the files below each project path
  upstream,       \* per project: the files its remote branch has and its tree lacks
  auxPresent,     \* the INCLUDE_ALWAYS files that exist on disk
  token,          \* whether GITHUB_TOKEN is set
  links,          \* BASE_UPDATE_DIR: <<name, file>> -> inode
  inode,          \* inode -> [entries, closed]
  pc,             \* position of make_update.main
  cur,            \* index of the project the loop is at
  version_tag,    \* zip_project's version_tag
  gitPos,         \* index of the next git_versioning step
  gitRan,         \* the steps this git_versioning call has executed
  gitFailed,      \* the first step of this call that failed, or None
  release_id,     \* upload_release_to_github's release_id
  releases,       \* the remote: repo -> releases, newest first
  nextId,         \* the remote's next release id
  pubLog,         \* the release identities the publish calls resolved
  upLog,          \* the requests the publish call of this project sent, and its last message
  latestBefore,   \* latest.zip's bytes when the current zip_project call began
  treeBefore,     \* the project's tree when the current zip_project call began
  built,          \* per project: the bytes of the archive its last successful build made
  zipped, versioned, published,  \* projects each stage was invoked for in this run
  mainResult,     \* "none", "running", "done" or "crashed"
  failedProject,  \* the project whose operation raised out of main
  PROJECTS,       \* updater.py's registry: name -> [update_url, service]
  served,         \* what a GET of a remote update_url answers with, per project
  sidecar,        \* the checksum sidecar published beside each project's artifact
  disk,           \* the files below each project path on the target host
  tmp,            \* the files of each tempfile.mkdtemp() directory
  loop,           \* the coroutine the event loop runs, or Idle
  rpc,            \* per request: position of run_update
  member,         \* per request: index of the next archive member to extract
  steps,          \* per request: the steps run_update has completed
  diskBefore      \* per request: its project's files when run_update began

buildVars ==
  <<now, runsLeft, projects, pathExists, tree, upstream, auxPresent, token, links, inode, pc,
    cur, version_tag, gitPos, gitRan, gitFailed, release_id, releases, nextId,
    pubLog, upLog, latestBefore, treeBefore, built, zipped, versioned, published,
    mainResult, failedProject>>

applyVars ==
  <<PROJECTS, served, sidecar, disk, tmp, loop, rpc, member, steps, diskBefore>>

vars == <<buildVars, applyVars>>

\* ------------------------------------------------------- file-system helpers
Put(f, k, v) == [x \in DOMAIN f \cup {k} |-> IF x = k THEN v ELSE f[x]]
Del(f, k) == [x \in DOMAIN f \ {k} |-> f[x]]

Latest == -1
\* line 27: os.path.join(BASE_UPDATE_DIR, name, f"{version_tag}.zip")
ZipPath(name, tag) == <<name, tag>>
\* line 28: os.path.join(BASE_UPDATE_DIR, name, "latest.zip")
LatestPath(name) == <<name, Latest>>

Exists(p) == p \in DOMAIN links
Bytes(p) == IF Exists(p) THEN <<inode[links[p]]>> ELSE NoFile
FreshInode == CHOOSE i \in 1..(Cardinality(DOMAIN inode) + 1) : i \notin DOMAIN inode
\* the inodes still linked from some name
Referenced(l) == {l[p] : p \in DOMAIN l}
Collect(l, ino) == [i \in DOMAIN ino \cap Referenced(l) |-> ino[i]]

\* line 26: datetime.datetime.now().strftime("%Y%m%d-%H%M%S"): whole seconds
VersionTag(t) == t \div TicksPerSecond

Name == projects[cur]
FullArchive(name) ==
  Walk(ProjectPath(name), tree[name], <<>>) \o Extras(auxPresent)

\* -------------------------------------------------------------------- clock
Tick ==
  /\ now < MaxTime
  /\ now' = now + 1
  /\ UNCHANGED <<runsLeft, projects, pathExists, tree, upstream, auxPresent, token, links,
                 inode, pc, cur, version_tag, gitPos, gitRan, gitFailed, release_id,
                 releases, nextId, pubLog, upLog, latestBefore, treeBefore, built,
                 zipped, versioned, published, mainResult, failedProject,
                 applyVars>>

\* --------------------------------------------------------- make_update.main
\* what no step of make_update.main writes
hostVars == <<now, projects, pathExists, auxPresent, token, applyVars>>
envVars == <<hostVars, tree, upstream>>
gitVars == <<gitPos, gitRan, gitFailed>>
relVars == <<release_id, releases, nextId, pubLog>>
remoteVars == <<relVars, upLog>>
fsVars == <<links, inode>>
snapVars == <<latestBefore, treeBefore, built>>

\* lines 127-130
MainStart ==
  /\ pc = "idle"
  /\ runsLeft > 0
  /\ runsLeft' = runsLeft - 1
  /\ zipped' = {} /\ versioned' = {} /\ published' = {}
  /\ failedProject' = None
  /\ cur' = 1
  /\ IF projects = <<>>
       THEN pc' = "idle" /\ mainResult' = "done"
       ELSE pc' = "loop" /\ mainResult' = "running"
  /\ UNCHANGED <<envVars, fsVars, version_tag, gitVars, remoteVars, snapVars>>

\* line 132: the loop has no project left
MainReturn ==
  /\ pc = "loop"
  /\ cur > Len(projects)
  /\ pc' = "idle"
  /\ mainResult' = "done"
  /\ upLog' = <<>>
  /\ UNCHANGED <<envVars, runsLeft, fsVars, cur, version_tag, gitVars, relVars,
                 snapVars, zipped, versioned, published, failedProject>>

\* lines 134-136
SkipMissing ==
  /\ pc = "loop"
  /\ cur <= Len(projects)
  /\ ~pathExists[Name]
  /\ cur' = cur + 1
  /\ upLog' = <<>>
  /\ UNCHANGED <<envVars, runsLeft, fsVars, pc, version_tag, gitVars, relVars,
                 snapVars, zipped, versioned, published, mainResult,
                 failedProject>>

\* an exception leaves zip_project and, uncaught in main (lines 132-140), the process
Raise ==
  /\ pc' = "idle"
  /\ mainResult' = "crashed"
  /\ failedProject' = Name
  /\ version_tag' = 0
  /\ upLog' = <<>>

\* lines 25-32: makedirs, the version tag, ZipFile(zip_path, "w") creates or truncates
ZipOpen ==
  /\ pc = "loop"
  /\ cur <= Len(projects)
  /\ pathExists[Name]
  /\ LET tag == VersionTag(now)
         zp == ZipPath(Name, tag)
         ino == IF Exists(zp) THEN links[zp] ELSE FreshInode
     IN /\ version_tag' = tag
        /\ latestBefore' = Bytes(LatestPath(Name))
        /\ treeBefore' = tree[Name]
        /\ links' = Put(links, zp, ino)
        /\ inode' = Put(inode, ino, [entries |-> <<>>, closed |-> FALSE])
  /\ zipped' = zipped \cup {Name}
  /\ upLog' = <<>>
  /\ pc' = "zip_walk"
  /\ UNCHANGED <<envVars, runsLeft, cur, gitVars, relVars, built, versioned,
                 published, mainResult, failedProject>>

\* lines 25, 32: makedirs or the open raises
ZipOpenFail ==
  /\ pc = "loop"
  /\ cur <= Len(projects)
  /\ pathExists[Name]
  /\ latestBefore' = Bytes(LatestPath(Name))
  /\ treeBefore' = tree[Name]
  /\ zipped' = zipped \cup {Name}
  /\ Raise
  /\ UNCHANGED <<envVars, runsLeft, fsVars, cur, gitVars, relVars, built,
                 versioned, published>>

ZipIno == links[ZipPath(Name, version_tag)]

\* lines 33-40
ZipWalk ==
  /\ pc = "zip_walk"
  /\ inode' = [inode EXCEPT ![ZipIno].entries = Walk(ProjectPath(Name), tree[Name], <<>>)]
  /\ pc' = "zip_extra"
  /\ UNCHANGED <<envVars, runsLeft, links, cur, version_tag, gitVars, remoteVars,
                 snapVars, zipped, versioned, published, mainResult,
                 failedProject>>

\* line 40 raises at the (k+1)-th file; leaving the with block closes the archive
ZipWalkFail ==
  /\ pc = "zip_walk"
  /\ LET all == Walk(ProjectPath(Name), tree[Name], <<>>)
     IN \E k \in 0..(Len(all) - 1) :
          inode' = [inode EXCEPT ![ZipIno] =
                      [entries |-> SubSeq(all, 1, k), closed |-> TRUE]]
  /\ Raise
  /\ UNCHANGED <<envVars, runsLeft, links, cur, gitVars, relVars,
                 snapVars, zipped, versioned, published>>

\* lines 43-46, and the close at the end of the with block
ZipExtras ==
  /\ pc = "zip_extra"
  /\ inode' = [inode EXCEPT ![ZipIno] =
                 [entries |-> @.entries \o Extras(auxPresent), closed |-> TRUE]]
  /\ pc' = "zip_remove"
  /\ UNCHANGED <<envVars, runsLeft, links, cur, version_tag, gitVars, remoteVars,
                 snapVars, zipped, versioned, published, mainResult,
                 failedProject>>

\* line 46 or the close raises
ZipExtrasFail ==
  /\ pc = "zip_extra"
  /\ inode' = [inode EXCEPT ![ZipIno].closed = TRUE]
  /\ Raise
  /\ UNCHANGED <<envVars, runsLeft, links, cur, gitVars, relVars,
                 snapVars, zipped, versioned, published>>

\* lines 48-49
ZipRemove ==
  /\ pc = "zip_remove"
  /\ LET l == IF Exists(LatestPath(Name)) THEN Del(links, LatestPath(Name)) ELSE links
     IN /\ links' = l
        /\ inode' = Collect(l, inode)
  /\ pc' = "zip_link"
  /\ UNCHANGED <<envVars, runsLeft, cur, version_tag, gitVars, remoteVars,
                 snapVars, zipped, versioned, published, mainResult,
                 failedProject>>

\* line 49 raises
ZipRemoveFail ==
  /\ pc = "zip_remove"
  /\ Exists(LatestPath(Name))
  /\ Raise
  /\ UNCHANGED <<envVars, runsLeft, fsVars, cur, gitVars, relVars,
                 snapVars, zipped, versioned, published>>

\* line 50: os.link(zip_path, latest_path), then the return of line 53
LinkSourceStale(name, tag) ==
  IF \E t \in 0..(tag - 1) : Exists(ZipPath(name, t))
    THEN ZipPath(name, CHOOSE t \in 0..(tag - 1) : Exists(ZipPath(name, t)))
    ELSE ZipPath(name, tag)
LinkSource(name, tag) == ZipPath(name, tag)

ZipLink ==
  /\ pc = "zip_link"
  /\ links' = Put(links, LatestPath(Name), links[LinkSource(Name, version_tag)])
  /\ pc' = "git"
  /\ gitPos' = 1
  /\ gitRan' = <<>>
  /\ gitFailed' = None
  /\ built' = [built EXCEPT ![Name] = Bytes(ZipPath(Name, version_tag))]
  /\ UNCHANGED <<envVars, runsLeft, inode, cur, version_tag, remoteVars,
                 latestBefore, treeBefore, zipped, versioned, published,
                 mainResult, failedProject>>

\* line 50 raises
ZipLinkFail ==
  /\ pc = "zip_link"
  /\ Raise
  /\ UNCHANGED <<envVars, runsLeft, fsVars, cur, gitVars, relVars,
                 snapVars, zipped, versioned, published>>

\* ----------------------------------------------------------- git_versioning
\* lines 59-67, in order; only "add" runs with check=True
GitSteps == <<"fetch", "pull", "add", "commit", "tag", "push", "push_tags">>
Checked(step) == step = "add"

AfterGit ==
  /\ pc' = "up_start"
  /\ gitPos' = 1

\* line 60: a git pull --rebase that exits 0 has brought the files of the remote
\* branch into the working tree
Pulled(t, new) == t \cup new

\* subprocess.run returns: exit status 0, or non-zero under check=False
GitStepReturns ==
  /\ pc = "git"
  /\ \E status \in {"zero", "nonzero"} :
       /\ status = "nonzero" => ~Checked(GitSteps[gitPos])
       /\ gitFailed' = IF status = "nonzero" /\ gitFailed = None
                         THEN GitSteps[gitPos] ELSE gitFailed
       /\ IF GitSteps[gitPos] = "pull" /\ status = "zero"
            THEN /\ tree' = [tree EXCEPT ![Name] = Pulled(@, upstream[Name])]
                 /\ upstream' = [upstream EXCEPT ![Name] = {}]
            ELSE UNCHANGED <<tree, upstream>>
  /\ gitRan' = Append(gitRan, GitSteps[gitPos])
  /\ versioned' = versioned \cup {Name}
  /\ IF gitPos = Len(GitSteps)
       THEN AfterGit
       ELSE pc' = "git" /\ gitPos' = gitPos + 1
  /\ UNCHANGED <<hostVars, runsLeft, fsVars, cur, version_tag, remoteVars,
                 snapVars, zipped, published, mainResult, failedProject>>

\* subprocess.run raises: the program cannot be launched (OSError), or "add" exits
\* non-zero (CalledProcessError); lines 69-70 catch it and the call returns
GitStepRaises ==
  /\ pc = "git"
  /\ gitFailed' = IF gitFailed = None THEN GitSteps[gitPos] ELSE gitFailed
  /\ gitRan' = Append(gitRan, GitSteps[gitPos])
  /\ versioned' = versioned \cup {Name}
  /\ AfterGit
  /\ UNCHANGED <<envVars, runsLeft, fsVars, cur, version_tag, remoteVars,
                 snapVars, zipped, published, mainResult, failedProject>>

\* ------------------------------------------------- upload_release_to_github
\* line 102: the None of a release_id (the remote's ids are positive)
NoId == 0

\* the call returns to line 132; its locals and those of the calls before it are gone
NextProject ==
  /\ pc' = "loop"
  /\ cur' = cur + 1
  /\ version_tag' = 0
  /\ release_id' = NoId
  /\ latestBefore' = NoFile
  /\ treeBefore' = {}

\* the publisher is entered: git_versioning's trace is dropped
Entered ==
  /\ published' = published \cup {Name}
  /\ gitRan' = <<>>
  /\ gitFailed' = None
  /\ gitPos' = 1

Tags(repo) == {releases[repo][i].tag : i \in 1..Len(releases[repo])}

\* line 101: one GET of the releases, without page parameters: the remote answers
\* with its first page, the newest releases, of a length it chooses
Pages(list) == {SubSeq(list, 1, k) : k \in 1..Len(list)}

\* line 102: next((rel["id"] for rel in releases if rel["tag_name"] == version_tag), None)
LookupByName(list, tag) ==
  LET hits == {i \in 1..Len(list) : list[i].name = <<tag>>}
  IN IF hits = {} THEN NoId
     ELSE list[CHOOSE i \in hits : \A j \in hits : i <= j].id
LookupRelease(list, tag) ==
  LET hits == {i \in 1..Len(list) : list[i].tag = tag}
  IN IF hits = {} THEN NoId
     ELSE list[CHOOSE i \in hits : \A j \in hits : i <= j].id

\* lines 75-78: no token, the skip message, no request
UpSkip ==
  /\ pc = "up_start"
  /\ ~token
  /\ upLog' = <<"skip">>
  /\ Entered
  /\ NextProject
  /\ UNCHANGED <<envVars, runsLeft, fsVars, releases, nextId, pubLog,
                 built, zipped, versioned, mainResult, failedProject>>

\* lines 98, 103-104: the remote creates the release and answers 201
UpCreate ==
  /\ pc = "up_start"
  /\ token
  /\ version_tag \notin Tags(Name)
  /\ releases' = [releases EXCEPT ![Name] =
                    <<[id |-> nextId, tag |-> version_tag,
                       name |-> <<Name, version_tag>>, assets |-> {}]>> \o @]
  /\ nextId' = nextId + 1
  /\ release_id' = nextId
  /\ pubLog' = pubLog \cup {[repo |-> Name, tag |-> version_tag, id |-> nextId,
                             how |-> "created"]}
  /\ upLog' = <<"create">>
  /\ Entered
  /\ pc' = "up_upload"
  /\ UNCHANGED <<envVars, runsLeft, fsVars, cur, version_tag, snapVars,
                 zipped, versioned, mainResult, failedProject>>

\* lines 98-100: the tag has a release already, the remote answers 422 already_exists
UpConflict ==
  /\ pc = "up_start"
  /\ token
  /\ version_tag \in Tags(Name)
  /\ upLog' = <<"create">>
  /\ Entered
  /\ pc' = "up_list"
  /\ UNCHANGED <<envVars, runsLeft, fsVars, cur, version_tag, release_id, releases,
                 nextId, pubLog, snapVars, zipped, versioned, mainResult,
                 failedProject>>

\* lines 105-107 (another status) or 121-122 (the request raises)
UpCreateFail ==
  /\ pc = "up_start"
  /\ token
  /\ upLog' = <<"create", "error">>
  /\ Entered
  /\ NextProject
  /\ UNCHANGED <<envVars, runsLeft, fsVars, releases, nextId, pubLog,
                 built, zipped, versioned, mainResult, failedProject>>

\* lines 101-102
UpList ==
  /\ pc = "up_list"
  /\ \E page \in Pages(releases[Name]) :
       LET id == LookupRelease(page, version_tag)
       IN /\ release_id' = id
          /\ pubLog' = pubLog \cup {[repo |-> Name, tag |-> version_tag, id |-> id,
                                     how |-> "reused"]}
  /\ upLog' = upLog \o <<"list">>
  /\ pc' = "up_upload"
  /\ UNCHANGED <<envVars, runsLeft, fsVars, cur, version_tag, gitVars, releases,
                 nextId, snapVars, zipped, versioned, published, mainResult,
                 failedProject>>

\* line 101 raises, or the answer is no list of releases (line 102 raises): 121-122
UpListFail ==
  /\ pc = "up_list"
  /\ upLog' = upLog \o <<"list", "error">>
  /\ NextProject
  /\ UNCHANGED <<envVars, runsLeft, fsVars, gitVars, releases, nextId, pubLog,
                 built, zipped, versioned, published, mainResult,
                 failedProject>>

\* line 110: the asset is named os.path.basename(zip_path)
AssetName(tag) == Basename(ZipPath("", tag))

\* lines 113-114: f.read() of zip_path
AssetBytesRebuilt(name, tag) == <<[entries |-> FullArchive(name), closed |-> TRUE]>>
AssetBytes(name, tag) == Bytes(ZipPath(name, tag))

\* lines 110-117: the request is sent, the remote attaches the asset and answers 201
UpUpload ==
  /\ pc = "up_upload"
  /\ Exists(ZipPath(Name, version_tag))
  /\ \E i \in 1..Len(releases[Name]) :
       /\ releases[Name][i].id = release_id
       /\ \A a \in releases[Name][i].assets : a.name # AssetName(version_tag)
       /\ releases' = [releases EXCEPT ![Name][i].assets =
                         @ \cup {[name |-> AssetName(version_tag),
                                  bytes |-> AssetBytes(Name, version_tag)]}]
  /\ upLog' = upLog \o <<"upload", "uploaded">>
  /\ NextProject
  /\ UNCHANGED <<envVars, runsLeft, fsVars, gitVars, nextId, pubLog, built,
                 zipped, versioned, published, mainResult, failedProject>>

\* lines 110-119: the request is sent, with whatever release_id holds in its URL; the
\* status is not 200/201 (lines 118-119) or the request raises (lines 121-122)
UpUploadFail ==
  /\ pc = "up_upload"
  /\ Exists(ZipPath(Name, version_tag))
  /\ upLog' = upLog \o <<"upload", "error">>
  /\ NextProject
  /\ UNCHANGED <<envVars, runsLeft, fsVars, gitVars, releases, nextId, pubLog,
                 built, zipped, versioned, published, mainResult,
                 failedProject>>

\* line 113 raises: zip_path cannot be opened; lines 121-122
UpOpenFail ==
  /\ pc = "up_upload"
  /\ upLog' = upLog \o <<"error">>
  /\ NextProject
  /\ UNCHANGED <<envVars, runsLeft, fsVars, gitVars, releases, nextId, pubLog,
                 built, zipped, versioned, published, mainResult,
                 failedProject>>

\* ------------------------------------------------------ updater.run_update
Reqs == {1, 2}
\* line 85: os.path.join(tmpdir, "update.zip"), relative to tmpdir
UpdateZip == <<"update.zip">>
\* line 103: zip_path + ".sha256"
Sha256Suffix(file) == file \o <<".sha256">>

\* lines 25-30: hashlib.sha256 of the file's bytes; the hex digest is a string of
\* one token, and every token of a digest string is a tuple
Sha256(bytes) == << <<"sha256", bytes>> >>
Newline == <<"\n">>
Space == <<" ">>

\* str.strip()
IsSpace(c) == c \in {Space, Newline}
RECURSIVE Strip(_)
Strip(s) ==
  IF Len(s) = 0 THEN s
  ELSE IF IsSpace(s[1]) THEN Strip(Tail(s))
  ELSE IF IsSpace(s[Len(s)]) THEN Strip(SubSeq(s, 1, Len(s) - 1))
  ELSE s

\* the "in" of line 112: pat is a substring of s
Contains(s, pat) ==
  \E i \in 1..(Len(s) - Len(pat) + 1) : SubSeq(s, i, i + Len(pat) - 1) = pat

\* line 112
Protected(m) ==
  \/ Contains(m, <<"venv", "/", "bin", "/", "python">>)
  \/ Contains(m, <<"venv", "/", "bin", "/", "python", "3">>)

\* line 114, ZipFile.extract: the member's path below the target directory, without
\* its empty, "." and ".." components
Target(m) ==
  LET cs == SelectSeq(Split(m), LAMBDA c : c \notin {<<>>, <<".">>, <<".", ".">>})
  IN Flatten([i \in 1..Len(cs) |-> IF i = 1 THEN cs[i] ELSE <<"/">> \o cs[i]])

\* line 114, ZipFile.extract(member): the bytes of the archive's last entry of that name
MemberData(entries, m) ==
  LET hits == {i \in 1..Len(entries) : entries[i].name = m}
  IN entries[CHOOSE i \in hits : \A j \in hits : j <= i].data

\* line 84: tempfile.mkdtemp() makes a directory that no other call has
TmpDirShared(r) == 1
TmpDir(r) == r

Project(r) == rpc[r].name
Fetched(r) == tmp[TmpDir(r)][UpdateZip]

\* run_update is a coroutine on the one event loop of the process (lines 142, 170):
\* it is suspended where it awaits, in the request of line 96 ("get") and at the end
\* of the async with block of line 95 ("close"), and nowhere else
AwaitsAll(at) == TRUE
Awaits(at) == at \in {"get", "close"}
Ended(at) == at \in {"ok", "error"}
Idle == 0

\* a coroutine that is called or suspended goes on when the loop is idle; one that
\* runs keeps the loop until it awaits or ends
Turn(r) == loop = IF rpc[r].at = "called" \/ Awaits(rpc[r].at) THEN Idle ELSE r
Goto(r, at) ==
  /\ rpc' = [rpc EXCEPT ![r].at = at]
  /\ loop' = IF Awaits(at) \/ Ended(at) THEN Idle ELSE r
Stay(r) ==
  /\ UNCHANGED rpc
  /\ loop' = IF Awaits(rpc[r].at) THEN Idle ELSE r
Did(r, step) == steps' = [steps EXCEPT ![r] = Append(@, step)]

\* lines 77-87
UpdateStart(r) ==
  /\ rpc[r].at = "called"
  /\ Turn(r)
  /\ IF Project(r) \notin DOMAIN PROJECTS
       THEN /\ Goto(r, "error")
            /\ UNCHANGED diskBefore
       ELSE /\ Goto(r, "fetch")
            /\ diskBefore' = [diskBefore EXCEPT ![r] = disk[Project(r)]]
  /\ UNCHANGED <<buildVars, PROJECTS, served, sidecar, disk, tmp, member, steps>>

\* line 90: url.startswith("/") and os.path.exists(url)
LocalSource(r) ==
  /\ PROJECTS[Project(r)].update_url = "local"
  /\ Exists(LatestPath(Project(r)))

\* lines 90-93
FetchLocal(r) ==
  /\ rpc[r].at = "fetch"
  /\ Turn(r)
  /\ LocalSource(r)
  /\ tmp' = [tmp EXCEPT ![TmpDir(r)] =
               Put(@, UpdateZip, Bytes(LatestPath(Project(r)))[1])]
  /\ Did(r, "resolve")
  /\ Goto(r, "verify")
  /\ UNCHANGED <<buildVars, PROJECTS, served, sidecar, disk, member, diskBefore>>

\* lines 95-96: the request is sent and awaited
FetchSend(r) ==
  /\ rpc[r].at = "fetch"
  /\ Turn(r)
  /\ ~LocalSource(r)
  /\ PROJECTS[Project(r)].update_url = "remote"
  /\ Goto(r, "get")
  /\ UNCHANGED <<buildVars, PROJECTS, served, sidecar, disk, tmp, member, steps,
                 diskBefore>>

\* lines 96-100: the server has answered 200
FetchRemote(r) ==
  /\ rpc[r].at = "get"
  /\ Turn(r)
  /\ tmp' = [tmp EXCEPT ![TmpDir(r)] = Put(@, UpdateZip, served[Project(r)])]
  /\ Did(r, "resolve")
  /\ Goto(r, "close")
  /\ UNCHANGED <<buildVars, PROJECTS, served, sidecar, disk, member, diskBefore>>

\* the async with block of line 95 is left
FetchClose(r) ==
  /\ rpc[r].at = "close"
  /\ Turn(r)
  /\ Goto(r, "verify")
  /\ UNCHANGED <<buildVars, PROJECTS, served, sidecar, disk, tmp, member, steps,
                 diskBefore>>

\* line 96 raises: a local path that does not exist is no URL
FetchReject(r) ==
  /\ rpc[r].at = "fetch"
  /\ Turn(r)
  /\ ~LocalSource(r)
  /\ PROJECTS[Project(r)].update_url = "local"
  /\ Goto(r, "error")
  /\ UNCHANGED <<buildVars, PROJECTS, served, sidecar, disk, tmp, member, steps,
                 diskBefore>>

\* lines 96-98: the request raises or the status is not 200
FetchFail(r) ==
  /\ rpc[r].at = "get"
  /\ Turn(r)
  /\ Goto(r, "error")
  /\ UNCHANGED <<buildVars, PROJECTS, served, sidecar, disk, tmp, member, steps,
                 diskBefore>>

\* lines 103-107
Verify(r) ==
  /\ rpc[r].at = "verify"
  /\ Turn(r)
  /\ IF Sha256Suffix(UpdateZip) \in DOMAIN tmp[TmpDir(r)]
       THEN LET expected == Strip(tmp[TmpDir(r)][Sha256Suffix(UpdateZip)])
                actual == Sha256(Fetched(r))
            IN IF expected # actual
                 THEN Goto(r, "error") /\ UNCHANGED steps
                 ELSE Goto(r, "extract") /\ Did(r, "verify")
       ELSE Goto(r, "extract") /\ Did(r, "verify")
  /\ member' = [member EXCEPT ![r] = 1]
  /\ UNCHANGED <<buildVars, PROJECTS, served, sidecar, disk, tmp, diskBefore>>

\* line 114: zf.extract(member, path) writes the member below path, over the file
\* that is there, and leaves every other file
ExtractClean(d, entries, m) == (Target(m) :> MemberData(entries, m))
Extract(d, entries, m) == Put(d, Target(m), MemberData(entries, m))

\* lines 111-114: one turn of the loop
ExtractMember(r) ==
  /\ rpc[r].at = "extract"
  /\ Turn(r)
  /\ Fetched(r).closed
  /\ member[r] <= Len(Fetched(r).entries)
  /\ LET m == Fetched(r).entries[member[r]].name
     IN IF Protected(m)
          THEN UNCHANGED disk
          ELSE disk' = [disk EXCEPT ![Project(r)] = Extract(@, Fetched(r).entries, m)]
  /\ member' = [member EXCEPT ![r] = @ + 1]
  /\ Stay(r)
  /\ UNCHANGED <<buildVars, PROJECTS, served, sidecar, tmp, steps, diskBefore>>

\* line 111: the loop ends
ExtractDone(r) ==
  /\ rpc[r].at = "extract"
  /\ Turn(r)
  /\ Fetched(r).closed
  /\ member[r] > Len(Fetched(r).entries)
  /\ Did(r, "extract")
  /\ Goto(r, "git")
  /\ member' = [member EXCEPT ![r] = 1]
  /\ UNCHANGED <<buildVars, PROJECTS, served, sidecar, disk, tmp, diskBefore>>

\* line 110 raises (the bytes are no complete archive) or line 114 raises
ExtractFail(r) ==
  /\ rpc[r].at = "extract"
  /\ Turn(r)
  /\ member[r] <= Len(Fetched(r).entries) \/ ~Fetched(r).closed
  /\ Goto(r, "error")
  /\ UNCHANGED <<buildVars, PROJECTS, served, sidecar, disk, tmp, member, steps,
                 diskBefore>>

\* lines 116-118, all with check=False
UpdateGitSteps == <<"add", "commit", "push">>

AfterUpdateGit(r) ==
  IF member[r] = Len(UpdateGitSteps)
    THEN Goto(r, "restart") /\ member' = [member EXCEPT ![r] = 1]
    ELSE Stay(r) /\ member' = [member EXCEPT ![r] = @ + 1]

\* subprocess.run returns, whatever the exit status
UpdateGitReturns(r) ==
  /\ rpc[r].at = "git"
  /\ Turn(r)
  /\ Did(r, UpdateGitSteps[member[r]])
  /\ AfterUpdateGit(r)
  /\ UNCHANGED <<buildVars, PROJECTS, served, sidecar, disk, tmp, diskBefore>>

\* subprocess.run raises OSError: git cannot be launched; nothing catches it
UpdateGitRaises(r) ==
  /\ rpc[r].at = "git"
  /\ Turn(r)
  /\ Goto(r, "error")
  /\ UNCHANGED <<buildVars, PROJECTS, served, sidecar, disk, tmp, member, steps,
                 diskBefore>>

\* line 124: the message run_update returns
Message(name) == <<name, " erfolgreich aktualisiert.">>

\* lines 120-124: no service, or systemctl returns, whatever the exit status
Restart(r) ==
  /\ rpc[r].at = "restart"
  /\ Turn(r)
  /\ IF PROJECTS[Project(r)].service # None
       THEN Did(r, "restart")
       ELSE UNCHANGED steps
  /\ rpc' = [rpc EXCEPT ![r].at = "ok", ![r].result = Message(Project(r))]
  /\ loop' = Idle
  /\ UNCHANGED <<buildVars, PROJECTS, served, sidecar, disk, tmp, member, diskBefore>>

\* line 121 raises OSError: sudo cannot be launched; nothing catches it
RestartRaises(r) ==
  /\ rpc[r].at = "restart"
  /\ Turn(r)
  /\ PROJECTS[Project(r)].service # None
  /\ Goto(r, "error")
  /\ UNCHANGED <<buildVars, PROJECTS, served, sidecar, disk, tmp, member, steps,
                 diskBefore>>

\* ------------------------------------------------------------ specifications
InitCommon ==
  /\ now = 0
  /\ auxPresent \in {{}, INCLUDE_ALWAYS}
  /\ token \in BOOLEAN
  /\ pc = "idle"
  /\ cur = 1
  /\ version_tag = 0
  /\ gitPos = 1
  /\ gitRan = <<>>
  /\ gitFailed = None
  /\ release_id = NoId
  /\ releases = [n \in ProjectNames |-> <<>>]
  /\ nextId = 1
  /\ pubLog = {}
  /\ upLog = <<>>
  /\ latestBefore = NoFile
  /\ treeBefore = {}
  /\ built = [n \in ProjectNames |-> NoFile]
  /\ zipped = {} /\ versioned = {} /\ published = {}
  /\ mainResult = "none"
  /\ failedProject = None

\* no request to the updater
InitNoApply ==
  /\ PROJECTS = <<>>
  /\ served = [n \in ProjectNames |-> [entries |-> <<>>, closed |-> TRUE]]
  /\ sidecar = [n \in ProjectNames |-> <<>>]
  /\ disk = [n \in ProjectNames |-> <<>>]
  /\ tmp = [r \in Reqs |-> <<>>]
  /\ loop = Idle
  /\ rpc = [r \in Reqs |-> [at |-> "off", name |-> None, result |-> <<>>]]
  /\ member = [r \in Reqs |-> 1]
  /\ steps = [r \in Reqs |-> <<>>]
  /\ diskBefore = [r \in Reqs |-> <<>>]

\* a batch of up to two projects, built up to MaxRuns times
InitBuild ==
  /\ InitCommon
  /\ InitNoApply
  /\ links = <<>>
  /\ inode = <<>>
  /\ runsLeft = MaxRuns
  /\ projects \in {<<>>, <<"a">>, <<"a", "b">>}
  /\ pathExists \in [ProjectNames -> BOOLEAN]
  /\ tree \in [ProjectNames -> BuildTrees]
  /\ upstream = [n \in ProjectNames |-> {}]

\* one project, every tree, one build
InitPack ==
  /\ InitCommon
  /\ InitNoApply
  /\ links = <<>>
  /\ inode = <<>>
  /\ runsLeft = 1
  /\ projects = <<"a">>
  /\ pathExists = [n \in ProjectNames |-> TRUE]
  /\ tree \in [ProjectNames -> Trees]
  /\ tree["b"] = {}
  /\ upstream = [n \in ProjectNames |-> {}]

Next ==
  \/ Tick
  \/ MainStart \/ MainReturn \/ SkipMissing
  \/ ZipOpen \/ ZipOpenFail \/ ZipWalk \/ ZipWalkFail \/ ZipExtras \/ ZipExtrasFail
  \/ ZipRemove \/ ZipRemoveFail \/ ZipLink \/ ZipLinkFail
  \/ GitStepReturns \/ GitStepRaises
  \/ UpSkip \/ UpCreate \/ UpConflict \/ UpCreateFail \/ UpList \/ UpListFail
  \/ UpUpload \/ UpUploadFail \/ UpOpenFail

SpecBuild == InitBuild /\ [][Next]_vars

\* builds of project a, whose remote branch may hold a file the working tree lacks;
\* the path of project b does not exist
InitRebase ==
  /\ InitCommon
  /\ InitNoApply
  /\ links = <<>>
  /\ inode = <<>>
  /\ runsLeft = MaxRuns
  /\ projects = <<"a", "b">>
  /\ pathExists = [n \in ProjectNames |-> n = "a"]
  /\ tree \in [ProjectNames -> BuildTrees]
  /\ upstream \in [ProjectNames -> {{}, {<<"src", "app.py">>}}]
  /\ upstream["b"] = {}

SpecRebase == InitRebase /\ [][Next]_vars

\* upload_release_to_github alone: called for project a with a version tag, with
\* or without a token, with or without an archive at zip_path, the repository
\* holding none, one or two releases
ReleaseOf(id, tag) == [id |-> id, tag |-> tag, name |-> <<"a", tag>>, assets |-> {}]
Remotes ==
  { <<>>, <<ReleaseOf(1, 0)>>, <<ReleaseOf(1, 1)>>, <<ReleaseOf(2, 1), ReleaseOf(1, 0)>> }

InitPublish ==
  /\ InitNoApply
  /\ now \in 0..MaxTime
  /\ auxPresent = {}
  /\ token \in BOOLEAN
  /\ runsLeft = 0
  /\ projects = <<"a">>
  /\ pathExists = [n \in ProjectNames |-> TRUE]
  /\ tree \in [ProjectNames -> BuildTrees]
  /\ upstream = [n \in ProjectNames |-> {}]
  /\ pc = "up_start"
  /\ cur = 1
  /\ version_tag = VersionTag(now)
  /\ \E archive \in BOOLEAN :
       /\ links = IF archive
                    THEN (ZipPath("a", version_tag) :> 1) @@ (LatestPath("a") :> 1)
                    ELSE <<>>
       /\ inode = IF archive
                    THEN <<[entries |-> FullArchive("a"), closed |-> TRUE]>>
                    ELSE <<>>
       /\ built = [n \in ProjectNames |->
                     IF archive /\ n = "a"
                       THEN <<[entries |-> FullArchive("a"), closed |-> TRUE]>>
                       ELSE NoFile]
  /\ gitPos = 1
  /\ gitRan = <<>>
  /\ gitFailed = None
  /\ release_id = NoId
  /\ \E rem \in Remotes :
       /\ releases = [n \in ProjectNames |-> IF n = "a" THEN rem ELSE <<>>]
       /\ nextId = Len(rem) + 1
  /\ pubLog = {}
  /\ upLog = <<>>
  /\ latestBefore = NoFile
  /\ treeBefore = tree["a"]
  /\ zipped = {"a"} /\ versioned = {"a"} /\ published = {}
  /\ mainResult = "running"
  /\ failedProject = None

NextPublish ==
  \/ UpSkip \/ UpCreate \/ UpConflict \/ UpCreateFail \/ UpList \/ UpListFail
  \/ UpUpload \/ UpUploadFail \/ UpOpenFail

SpecPublish == InitPublish /\ [][NextPublish]_vars

\* the names an archive handed to the updater may give its members
EntryNames ==
  { <<"app.py">>,
    <<"bin", "/", "run">>,
    <<"venv", "/", "bin", "/", "python">>,
    <<"venv", "/", ".", "/", "bin", "/", "python">>,
    <<".", "venv", "/", "bin", "/", "python", "3">>,
    <<"venv", "/", "bin", "/", "python", "3", "-config">>,
    <<".", ".", "/", "b", "/", "app.py">> }

Injective(s) == \A i, j \in 1..Len(s) : s[i] = s[j] => i = j
NameLists ==
  {s \in UNION {[1..n -> EntryNames] : n \in 0..MaxEntries} : Injective(s)}
NewData(m) == FileData(<<"new">> \o m)
OldData(m) == FileData(<<"old">> \o m)
Archive(names) ==
  [entries |-> [i \in 1..Len(names) |-> [name |-> names[i], data |-> NewData(names[i])]],
   closed |-> TRUE]
\* the archive another project is served
ArchiveB ==
  [entries |-> <<[name |-> <<"app.py">>, data |-> FileData(<<"b", "app.py">>)]>>,
   closed |-> TRUE]

\* the deployment directory before the update: empty, or an installation
Installed ==
  LET fs == {<<"app.py">>, <<"keep.txt">>, <<"venv", "/", "bin", "/", "python">>}
  IN [f \in fs |-> OldData(f)]
Disks == {<<>>, Installed}

\* one request to the updater, for a configured project or an unknown one
InitApply ==
  /\ InitCommon
  /\ auxPresent = {}
  /\ token = FALSE
  /\ runsLeft = 0
  /\ projects = <<>>
  /\ pathExists = [n \in ProjectNames |-> FALSE]
  /\ tree = [n \in ProjectNames |-> {}]
  /\ upstream = [n \in ProjectNames |-> {}]
  /\ \E names \in NameLists, url \in {"local", "missing", "remote"},
        service \in {None, "svc"}, d \in Disks, req \in ProjectNames,
        side \in {"none", "match", "mismatch"} :
       /\ PROJECTS = [n \in {"a"} |->
                        [update_url |-> IF url = "remote" THEN "remote" ELSE "local",
                         service |-> service]]
       /\ links = IF url = "local" THEN (LatestPath("a") :> 1) ELSE <<>>
       /\ inode = IF url = "local" THEN <<Archive(names)>> ELSE <<>>
       /\ served = [n \in ProjectNames |-> Archive(names)]
       /\ sidecar = [n \in ProjectNames |->
                       CASE side = "none" -> <<>>
                         [] side = "match" -> Sha256(Archive(names)) \o <<Newline>>
                         [] side = "mismatch" -> <<<<"deadbeef">>, Newline>>]
       /\ disk = [n \in ProjectNames |-> IF n = "a" THEN d ELSE <<>>]
       /\ rpc = [r \in Reqs |-> IF r = 1 THEN [at |-> "called", name |-> req, result |-> <<>>]
                                          ELSE [at |-> "off", name |-> None, result |-> <<>>]]
  /\ tmp = [r \in Reqs |-> <<>>]
  /\ loop = Idle
  /\ member = [r \in Reqs |-> 1]
  /\ steps = [r \in Reqs |-> <<>>]
  /\ diskBefore = [r \in Reqs |-> <<>>]

\* the next step of request r
Step(r) ==
  \/ UpdateStart(r)
  \/ FetchLocal(r) \/ FetchSend(r) \/ FetchRemote(r) \/ FetchClose(r)
  \/ FetchReject(r) \/ FetchFail(r)
  \/ Verify(r)
  \/ ExtractMember(r) \/ ExtractDone(r) \/ ExtractFail(r)
  \/ UpdateGitReturns(r) \/ UpdateGitRaises(r)
  \/ Restart(r) \/ RestartRaises(r)

NextApply == \E r \in Reqs : Step(r)

SpecApply == InitApply /\ [][NextApply]_vars
\* server mode: two requests have arrived, for one project or for two
InitServe ==
  /\ InitCommon
  /\ auxPresent = {}
  /\ token = FALSE
  /\ runsLeft = 0
  /\ projects = <<>>
  /\ pathExists = [n \in ProjectNames |-> FALSE]
  /\ tree = [n \in ProjectNames |-> {}]
  /\ upstream = [n \in ProjectNames |-> {}]
  /\ \E names \in NameLists, url \in {"local", "missing", "remote"},
        service \in {None, "svc"}, d \in Disks, req \in [Reqs -> ProjectNames] :
       /\ PROJECTS = [n \in ProjectNames |->
                        [update_url |-> IF n = "a" /\ url # "remote"
                                          THEN "local" ELSE "remote",
                         service |-> service]]
       /\ links = IF url = "local" THEN (LatestPath("a") :> 1) ELSE <<>>
       /\ inode = IF url = "local" THEN <<Archive(names)>> ELSE <<>>
       /\ served = [n \in ProjectNames |-> IF n = "a" THEN Archive(names) ELSE ArchiveB]
       /\ disk = [n \in ProjectNames |-> d]
       /\ rpc = [r \in Reqs |-> [at |-> "called", name |-> req[r], result |-> <<>>]]
  /\ sidecar = [n \in ProjectNames |-> <<>>]
  /\ tmp = [r \in Reqs |-> <<>>]
  /\ loop = Idle
  /\ member = [r \in Reqs |-> 1]
  /\ steps = [r \in Reqs |-> <<>>]
  /\ diskBefore = [r \in Reqs |-> <<>>]

SpecServe == InitServe /\ [][NextApply]_vars
\* zip_project alone
NextPack ==
  \/ MainStart
  \/ ZipOpen \/ ZipOpenFail \/ ZipWalk \/ ZipWalkFail \/ ZipExtras \/ ZipExtrasFail
  \/ ZipRemove \/ ZipLink \/ ZipLinkFail

SpecPack == InitPack /\ [][NextPack]_vars

\* ===================================================================== claims
\* zip_project has just returned (line 53) to main
ZipReturned == pc = "git" /\ gitRan = <<>>
\* the with block of lines 32-46 has just been left without an exception
ArchiveBuilt == pc = "zip_remove"
AliasOf(n) == IF Exists(LatestPath(n)) THEN {links[LatestPath(n)]} ELSE {}

\* C2: when zip_project returns, latest.zip exists and has the bytes of the
\* version-tagged archive this call wrote, which is complete and closed; and
\* latest.zip is unlinked or linked only by a call whose archive is complete
\* and closed.
C2_AliasAfterArchive ==
  [][ /\ (pc = "zip_link" /\ ZipReturned') =>
            /\ Exists(LatestPath(Name))'
            /\ Bytes(LatestPath(Name))' = Bytes(ZipPath(Name, version_tag))'
            /\ Bytes(LatestPath(Name))' =
                 <<[entries |-> FullArchive(Name), closed |-> TRUE]>>
      /\ \A n \in ProjectNames :
           AliasOf(n)' # AliasOf(n) =>
             /\ pc \in {"zip_remove", "zip_link"}
             /\ n = Name
             /\ inode[ZipIno] = [entries |-> FullArchive(Name), closed |-> TRUE]
    ]_vars

\* C2 witness: a build has returned after replacing an alias that existed
C2_Witness ==
  /\ ZipReturned
  /\ latestBefore # NoFile
  /\ version_tag = 1
  /\ Bytes(LatestPath(Name)) = Bytes(ZipPath(Name, 1))

\* C3: after a zip_project call that raised, latest.zip of that project is what
\* it was when the call began.
C3_FailedPackageKeepsAlias ==
  mainResult = "crashed" => Bytes(LatestPath(failedProject)) = latestBefore

C7_BatchIsolation ==
  mainResult \in {"done", "crashed"} =>
    \A i \in 1..Len(projects) :
      (pathExists[projects[i]] /\ projects[i] # failedProject) =>
        projects[i] \in (zipped \cap versioned \cap published)

\* git_versioning ended at its third step: staging raised
StagingFailed == Len(gitRan) = 3
\* C8: when git_versioning has ended and main is about to call the publisher,
\* a failure of a step other than staging has prevented no later step: unless
\* staging itself failed, all seven steps were executed.
C8_BestEffortSteps ==
  (pc = "up_start" /\ gitFailed # None /\ gitFailed # "add" /\ ~StagingFailed) =>
    gitRan = GitSteps

\* the directories an entry of components cs lies under, and the archive just built
Ancestors(cs) == {cs[i] : i \in 1..(Len(cs) - 1)}
Under(cs) == Ancestors(cs) \cap EXCLUDE_DIRS # {}
BeginsWith(cs) == cs[1] \in EXCLUDE_DIRS
Built == inode[ZipIno].entries
InArchive(f) ==
  \E i \in 1..Len(Built) :
    Built[i] = [name |-> JoinPath(f), data |-> FileData(ProjectPath(Name) \o f)]
\* C9, as stated: no entry begins with an excluded directory name or lies under a
\* directory of such a name, no entry's file name is an excluded file name, and
\* every other file of the tree is in the archive at its relative path.
C9_NoExcludedPrefix ==
  ArchiveBuilt =>
    /\ \A i \in 1..Len(Built) :
         LET cs == Split(Built[i].name)
         IN /\ ~BeginsWith(<<cs[1][1]>>)
            /\ ~Under([k \in 1..Len(cs) |-> cs[k][1]])
            /\ cs[Len(cs)][1] \notin EXCLUDE_FILES
    /\ \A f \in tree[Name] :
         (~BeginsWith(f) /\ ~Under(f) /\ Basename(f) \notin EXCLUDE_FILES)
           => InArchive(f)

\* C9, amended: no entry lies under a directory of an excluded name, no entry's file
\* name is an excluded file name, and every other file of the tree, a regular
\* file that itself bears an excluded directory name included, is in the
\* archive at its relative path, with its bytes.
C9_NoExcludedSubtree ==
  ArchiveBuilt =>
    /\ \A i \in 1..Len(Built) :
         LET cs == Split(Built[i].name)
         IN /\ ~Under([k \in 1..Len(cs) |-> cs[k][1]])
            /\ cs[Len(cs)][1] \notin EXCLUDE_FILES
    /\ \A f \in tree[Name] :
         (~Under(f) /\ Basename(f) \notin EXCLUDE_FILES) <=> InArchive(f)

\* C9 witness: an archive was built from a tree with an excluded directory below
\* the root, an excluded file, and a regular file named like an excluded directory
C9_Witness ==
  /\ ArchiveBuilt
  /\ tree[Name] = {<<"src", "venv", "app.py">>, <<"src", ".env">>, <<"logs">>}
  /\ Len(Built) = 1 + Len(Extras(auxPresent))

\* C10: the archive built holds exactly one entry named by the base name of each
\* auxiliary file that exists on disk.
C10_AuxiliaryOnce ==
  ArchiveBuilt =>
    \A x \in auxPresent :
      Cardinality({i \in 1..Len(Built) : Built[i].name = <<Basename(x)>>}) = 1

\* the sidecar published beside the artifact a request fetched names another hash
HasFetched(r) == UpdateZip \in DOMAIN tmp[TmpDir(r)]
SidecarMismatch(r) ==
  /\ HasFetched(r)
  /\ sidecar[Project(r)] # <<>>
  /\ Strip(sidecar[Project(r)]) # Sha256(Fetched(r))

\* C1: a run whose fetched archive has a checksum sidecar naming another hash
\* never succeeds, and never writes below the project path.
C1_MismatchAborts ==
  \A r \in Reqs :
    SidecarMismatch(r) =>
      /\ rpc[r].at # "ok"
      /\ disk[Project(r)] = diskBefore[r]

FileAt(d, f) == IF f \in DOMAIN d THEN <<d[f]>> ELSE NoFile
\* C5: at every point of a run, the path of every archive member that matches the
\* protected pattern holds what it held when the run began: the same file, or none.
C5_ProtectedUntouched ==
  \A r \in Reqs :
    HasFetched(r) =>
      \A i \in 1..Len(Fetched(r).entries) :
        LET m == Fetched(r).entries[i].name
        IN Protected(m) =>
             FileAt(disk[Project(r)], Target(m)) = FileAt(diskBefore[r], Target(m))

Extracted(r) == \E i \in 1..Len(steps[r]) : steps[r][i] = "extract"
\* C6: once extraction has completed, the run does not end in an error, and when
\* it has ended it has returned the success message naming the project.
C6_SuccessAfterExtract ==
  \A r \in Reqs :
    Extracted(r) =>
      /\ rpc[r].at # "error"
      /\ rpc[r].at = "ok" => rpc[r].result = Message(Project(r))

\* the interpreter binary of a virtual environment: python or python3 in the bin
\* directory of a directory named venv or .venv
InterpreterBinary(m) ==
  LET cs == Split(Target(m))
      n == Len(cs)
  IN /\ n >= 3
     /\ cs[n] \in {<<"python">>, <<"python", "3">>}
     /\ cs[n - 1] = <<"bin">>
     /\ cs[n - 2] \in {<<"venv">>, <<".", "venv">>}

\* C11: after a successful run, every archive entry that is not the interpreter
\* binary of a virtual environment is below the project path at its in-archive
\* relative path with the archive's content, and the message names the project.
C11_AllButInterpreterApplied ==
  \A r \in Reqs :
    rpc[r].at = "ok" =>
      /\ \A i \in 1..Len(Fetched(r).entries) :
           LET e == Fetched(r).entries[i]
           IN ~InterpreterBinary(e.name) =>
                FileAt(disk[Project(r)], Target(e.name)) = <<e.data>>
      /\ Contains(rpc[r].result, <<Project(r)>>)

\* C12: a call of zip_project obtains a version tag greater than the tag of every
\* archive written for the project before, so that it creates its archive file and
\* writes over none that exists.
C12_FreshVersionTag ==
  [][(pc = "loop" /\ pc' = "zip_walk") =>
       \A p \in DOMAIN links :
         (p[1] = Name /\ p[2] # Latest) => p[2] < version_tag']_vars

\* C13: a publish call made without a token, or with no archive at zip_path, sends
\* no request and changes no release; it ends with the skip message.
C13_PublishNoOp ==
  [][(pc = "up_start" /\ (~token \/ ~Exists(ZipPath(Name, version_tag)))) =>
       /\ upLog' = <<"skip">>
       /\ releases' = releases]_vars

\* the steps of a run in the order of section 4.4, commit being add, commit, push
StepOrder == <<"resolve", "verify", "extract", "add", "commit", "push", "restart">>

\* C14: the steps a run has completed are an initial part of resolve, verify,
\* extract, commit, restart; files are written only by a run that has resolved and
\* verified and has not yet completed extraction; a run that has ended in an error
\* executes nothing more; and a run whose fetched archive does not match its
\* checksum sidecar goes no further than verification and ends in an error.
C14_SequentialTerminal ==
  [][\A r \in Reqs :
       /\ IsPrefix(steps'[r], StepOrder)
       /\ disk' # disk =>
            \E q \in Reqs : rpc[q].at = "extract" /\ steps[q] = <<"resolve", "verify">>
       /\ rpc[r].at = "error" => (rpc'[r] = rpc[r] /\ steps'[r] = steps[r])
       /\ SidecarMismatch(r)' => rpc'[r].at \in {"close", "verify", "error"}]_vars

\* C15: in every state after a project's first successful build, latest.zip exists
\* and has the bytes of the archive the project's last successful build made.
C15_AliasAlwaysNewest ==
  \A n \in ProjectNames :
    built[n] # NoFile => Bytes(LatestPath(n)) = built[n]

Sent(log, req) == \E i \in 1..Len(log) : log[i] = req

\* C16: a publish call sends the asset upload only with the identity of a release
\* of the repository that bears the version tag; a call that holds no release
\* identity after the listing sends no upload and ends with an error.
C16_UploadNeedsRelease ==
  [][ /\ (Sent(upLog', "upload") /\ ~Sent(upLog, "upload")) =>
           \E i \in 1..Len(releases[Name]) :
             /\ releases[Name][i].id = release_id
             /\ releases[Name][i].tag = version_tag
      /\ (pc = "up_upload" /\ release_id = NoId) =>
           /\ ~Sent(upLog', "upload")
           /\ upLog'[Len(upLog')] = "error" ]_vars

\* a run between the start of its extraction and the end of its commit
InSection(r) == rpc[r].at \in {"extract", "git"}
InFlight(r) == rpc[r].at \notin {"off", "ok", "error"}

\* C17, as stated: requests for one project are not mutually excluded: while one is
\* between the start of its extraction and the end of its commit, another that has
\* arrived and has not ended can take its next step.
C17_NotExcluded ==
  \A r1, r2 \in Reqs :
    (r1 # r2 /\ Project(r1) = Project(r2) /\ InSection(r1) /\ InFlight(r2)) =>
      ENABLED Step(r2)

\* C17, amended: run_update awaits only in the fetch of its resolve step, so requests
\* for one project are serialised from verification on: while one is between the
\* start of its extraction and the end of its commit, no step of another takes
\* place, and the other is not in that section.
C17_Serialised ==
  [][\A r1, r2 \in Reqs :
       (r1 # r2 /\ Project(r1) = Project(r2) /\ InSection(r1)) =>
         /\ ~InSection(r2)
         /\ rpc'[r2] = rpc[r2] /\ steps'[r2] = steps[r2] /\ member'[r2] = member[r2]
         /\ tmp'[TmpDir(r2)] = tmp[TmpDir(r2)]]_vars

\* C17 witness: a request has extracted and is in its commit while another for the
\* same project, which has fetched its archive, waits for the event loop
C17_Witness ==
  \E r1, r2 \in Reqs :
    /\ r1 # r2 /\ Project(r1) = Project(r2)
    /\ rpc[r1].at = "git" /\ member[r1] > 1
    /\ rpc[r2].at = "close"

\* the bytes a request resolves: its project's local file, or the server's answer
Source(r) ==
  IF LocalSource(r) THEN Bytes(LatestPath(Project(r)))[1] ELSE served[Project(r)]

\* what a run on its own makes of the files d with the first k entries of an archive
RECURSIVE Alone(_, _, _)
Alone(d, entries, k) ==
  IF k = 0 THEN d
  ELSE LET before == Alone(d, entries, k - 1)
           m == entries[k].name
       IN IF Protected(m) THEN before ELSE Extract(before, entries, m)

SoleOnProject(r) == \A q \in Reqs \ {r} : Project(q) # Project(r)

\* C18: of concurrent requests for different projects, each reads from its temporary
\* archive file the bytes it fetched itself, only the request of a project writes
\* below that project's path, and a request that has succeeded leaves its project
\* with the files its run alone would have made.
C18_Independent ==
  [][\A r \in Reqs :
       SoleOnProject(r) =>
         /\ rpc'[r].at \in {"verify", "extract", "git", "restart", "ok"} =>
              Fetched(r)' = Source(r)'
         /\ disk'[Project(r)] # disk[Project(r)] => (loop = r /\ rpc[r].at = "extract")
         /\ rpc'[r].at = "ok" =>
              disk'[Project(r)] =
                Alone(diskBefore'[r], Source(r)'.entries, Len(Source(r)'.entries))]_vars

\* C18 witness: a request has succeeded and changed its project's files while a
\* request for another project, which has fetched its archive, is in flight
C18_Witness ==
  \E r1, r2 \in Reqs :
    /\ Project(r1) # Project(r2)
    /\ rpc[r1].at = "ok" /\ disk[Project(r1)] # diskBefore[r1]
    /\ rpc[r2].at = "close"

Snapshot == <<[entries |-> Walk(ProjectPath(Name), treeBefore, <<>>) \o Extras(auxPresent),
              closed |-> TRUE]>>
Holds(bytes, f) ==
  \E k \in 1..Len(bytes[1].entries) : bytes[1].entries[k].name = JoinPath(f)

\* C20: when a step of git_versioning is executed, the build's archive is complete
\* and latest.zip has its bytes; the publisher acts only after git_versioning has
\* executed its steps; and the asset uploaded is the archive of the tree as it was
\* before the build's fetch and rebase, without any file the rebase brought.
C20_SnapshotBeforeRebase ==
  [][ /\ gitRan' # gitRan /\ gitRan' # <<>> =>
           /\ Bytes(ZipPath(Name, version_tag)) = Snapshot
           /\ Bytes(LatestPath(Name)) = Snapshot
      /\ upLog' # upLog /\ upLog' # <<>> =>
           /\ pc \in {"up_start", "up_list", "up_upload"}
           /\ pc = "up_start" => gitRan # <<>>
      /\ pc = "up_upload" =>
           \A i \in 1..Len(releases[Name]) :
             \A x \in releases'[Name][i].assets \ releases[Name][i].assets :
               /\ x.bytes = Snapshot
               /\ \A f \in tree[Name] \ treeBefore : ~Holds(x.bytes, f) ]_vars

\* C20 witness: a release holds an asset without the file that the rebase of its
\* build has brought into the working tree
C20_Witness ==
  /\ <<"src", "app.py">> \in tree["a"]
  /\ \E i \in 1..Len(releases["a"]) :
       \E x \in releases["a"][i].assets : ~Holds(x.bytes, <<"src", "app.py">>)

====
